---- MODULE Spec2Model ----
(***************************************************************************)
(* Model of src/cloud_top.py: cloud_base_top and var_below_cloud_top.      *)
(*                                                                         *)
(* Every xarray operation of the module reduces or selects along 'lev'     *)
(* only, so one column is modelled.  A profile is a sequence over the      *)
(* level axis; Python position i is TLA+ position i + 1, and the indices   *)
(* idx_acb, idx_act, idx_bct are kept 0-based as the code returns them.    *)
(* CLW values and thresholds are in units of 1.0e-5 kg m-3.                *)
(***************************************************************************)
EXTENDS Integers, Sequences, FiniteSets

VARIABLES pc, lev, clw, clw_thresh, clw_mask, clt_mask, lev_acb, idx_acb,
          bct_mask, idx_act, idx_bct, var, var_bct

vars == <<pc, lev, clw, clw_thresh, clw_mask, clt_mask, lev_acb, idx_acb,
          bct_mask, idx_act, idx_bct, var, var_bct>>

(* ---- bounds ---- *)
MaxLev == 4
MaxClw == 2
MaxVarLev == 33
IdxSlack == 2

(* ---- program constants ---- *)
ChooseLevels == 31
DefaultThresh == 1

(* np.nan; every real value of the model is >= 0 *)
NaN == -1
IsNaN(x) == x = NaN

(* IEEE comparisons: any comparison with nan is False *)
Lt(x, y) == ~IsNaN(x) /\ ~IsNaN(y) /\ x < y
Gt(x, y) == ~IsNaN(x) /\ ~IsNaN(y) /\ x > y
Ge(x, y) == ~IsNaN(x) /\ ~IsNaN(y) /\ x >= y

AsInt(b) == IF b THEN 1 ELSE 0
Max(x, y) == IF x >= y THEN x ELSE y
Min(x, y) == IF x <= y THEN x ELSE y

(* variant: position of the last maximum *)
ArgMaxLast(s) ==
    CHOOSE i \in 0..(Len(s) - 1) :
        /\ \A j \in 0..(Len(s) - 1) : s[j + 1] <= s[i + 1]
        /\ \A j \in (i + 1)..(Len(s) - 1) : s[j + 1] < s[i + 1]

(* position of the first maximum *)
ArgMax(s) ==
    CHOOSE i \in 0..(Len(s) - 1) :
        /\ \A j \in 0..(Len(s) - 1) : s[j + 1] <= s[i + 1]
        /\ \A j \in 0..(i - 1) : s[j + 1] < s[i + 1]

(* position of the first minimum *)
ArgMin(s) ==
    CHOOSE i \in 0..(Len(s) - 1) :
        /\ \A j \in 0..(Len(s) - 1) : s[j + 1] >= s[i + 1]
        /\ \A j \in 0..(i - 1) : s[j + 1] > s[i + 1]

(* xr.where(clw > clw_thresh, True, False) *)
ClwMask(c, t) == [i \in 1..Len(c) |-> Gt(c[i], t)]

(* variant: the comparison of the column test reversed *)
CltMaskAllAbove(c, t) == ~(\A i \in 1..Len(c) : Gt(c[i], t))

(* xr.where((clw < clw_thresh).all(dim='lev'), False, True) *)
CltMask(c, t) == ~(\A i \in 1..Len(c) : Lt(c[i], t))

(* variant: idxmax without .where(clt_mask) *)
LevAcbUnmasked(m, l, cm) ==
    l[ArgMax([i \in 1..Len(m) |-> AsInt(m[i])]) + 1]

(* clw_mask.idxmax(dim='lev').where(clt_mask) *)
LevAcb(m, l, cm) ==
    IF cm THEN l[ArgMax([i \in 1..Len(m) |-> AsInt(m[i])]) + 1] ELSE NaN

(* clw_mask.argmax(dim='lev') *)
IdxAcb(m) == ArgMax([i \in 1..Len(m) |-> AsInt(m[i])])

(* variant: the label comparisons reversed *)
BctMaskFlipped(m, l, la) ==
    [i \in 1..Len(m) |->
        (IF Gt(l[i], la) THEN AsInt(m[i]) ELSE 0)
        + (IF ~IsNaN(la) /\ ~Gt(l[i], la) THEN 1 ELSE 0)]

(* xr.where(lev < lev_acb, clw_mask, 0) + xr.where(lev >= lev_acb, 1, 0) *)
BctMask(m, l, la) ==
    [i \in 1..Len(m) |->
        (IF Lt(l[i], la) THEN AsInt(m[i]) ELSE 0)
        + (IF Ge(l[i], la) THEN 1 ELSE 0)]

(* bct_mask.argmin(dim='lev') *)
IdxAct(bm) == ArgMin(bm)

(* variant: no np.maximum *)
IdxBctNoClamp(ia) == ia - 1

(* variant: no step back from idx_act *)
IdxBctNoStep(ia) == Max(ia, 0)

(* np.maximum(idx_act - 1, 0) *)
IdxBct(ia) == Max(ia - 1, 0)

(* var.isel(lev=slice(0, 31)) *)
VarToChoose(v) == SubSeq(v, 1, Min(Len(v), ChooseLevels))

(* variant: mode='wrap' *)
ChooseWrap(i, choices) == choices[(i % Len(choices)) + 1]

(* np.choose(i, choices, mode='clip') *)
Choose(i, choices) == choices[Max(0, Min(i, Len(choices) - 1)) + 1]

(* xr.where(clt_mask, np.choose(idx_bct, var_to_choose, mode='clip'), nan) *)
VarBelowCloudTop(cm, ib, v) ==
    IF cm THEN Choose(ib, VarToChoose(v)) ELSE NaN

(* ---- inputs; a result not computed yet reads 0 ---- *)
RECURSIVE SeqsOf(_, _)
SeqsOf(S, n) ==
    IF n = 0 THEN {<<>>}
    ELSE {Append(s, x) : s \in SeqsOf(S, n - 1), x \in S}

Increasing(l) == \A i \in 1..(Len(l) - 1) : l[i] < l[i + 1]
Decreasing(l) == \A i \in 1..(Len(l) - 1) : l[i] > l[i + 1]

LevLabels == 0..MaxLev
ClwValues == (0..MaxClw) \cup {NaN}
Thresholds == 0..MaxClw

(* strictly monotonic level coordinates of n levels *)
LevCoords(n) == {l \in SeqsOf(LevLabels, n) : Increasing(l) \/ Decreasing(l)}

(* companion variables over n levels *)
VarProfiles(n) == {[i \in 1..n |-> 10 * i], [i \in 1..n |-> 100 - i]}

IdxArgs == (0 - IdxSlack)..(MaxVarLev + IdxSlack)

NoResults ==
    /\ clw_mask = <<>>
    /\ lev_acb = 0
    /\ idx_acb = 0
    /\ bct_mask = <<>>
    /\ idx_act = 0
    /\ var_bct = 0

(* a caller about to run cloud_base_top on a profile *)
InitDetect ==
    /\ pc = "start"
    /\ \E n \in 1..MaxLev :
          /\ lev \in LevCoords(n)
          /\ clw \in SeqsOf(ClwValues, n)
    /\ clw_thresh \in Thresholds
    /\ clt_mask = FALSE
    /\ idx_bct = 0
    /\ var = <<>>
    /\ NoResults

(* a caller about to run var_below_cloud_top on arguments of its own *)
InitSample ==
    /\ pc = "args"
    /\ lev = <<>>
    /\ clw = <<>>
    /\ clw_thresh = DefaultThresh
    /\ NoResults
    /\ clt_mask \in BOOLEAN
    /\ idx_bct \in IdxArgs
    /\ \E n \in 1..MaxVarLev : var \in VarProfiles(n)

Init == InitDetect \/ InitSample

(* cloud_base_top(clw, clw_thresh) *)
Detect ==
    /\ pc = "start"
    /\ pc' = "detected"
    /\ clw_mask' = ClwMask(clw, clw_thresh)
    /\ clt_mask' = CltMask(clw, clw_thresh)
    /\ lev_acb' = LevAcb(clw_mask', lev, clt_mask')
    /\ idx_acb' = IdxAcb(clw_mask')
    /\ bct_mask' = BctMask(clw_mask', lev, lev_acb')
    /\ idx_act' = IdxAct(bct_mask')
    /\ idx_bct' = IdxBct(idx_act')
    /\ UNCHANGED <<lev, clw, clw_thresh, var, var_bct>>

(* var_below_cloud_top on the detector's outputs and a companion variable *)
SampleDetected ==
    /\ pc = "detected"
    /\ pc' = "sampled"
    /\ var' \in VarProfiles(Len(clw))
    /\ var_bct' = VarBelowCloudTop(clt_mask, idx_bct, var')
    /\ UNCHANGED <<lev, clw, clw_thresh, clw_mask, clt_mask, lev_acb,
                   idx_acb, bct_mask, idx_act, idx_bct>>

(* var_below_cloud_top on the caller's own arguments *)
SampleArgs ==
    /\ pc = "args"
    /\ pc' = "returned"
    /\ var_bct' = VarBelowCloudTop(clt_mask, idx_bct, var)
    /\ UNCHANGED <<lev, clw, clw_thresh, clw_mask, clt_mask, lev_acb,
                   idx_acb, bct_mask, idx_act, idx_bct, var>>

Next == Detect \/ SampleDetected \/ SampleArgs

Spec == Init /\ [][Next]_vars

(* ---- vocabulary of the properties ---- *)
Detected == pc \in {"detected", "sampled"}
Sampled == pc \in {"sampled", "returned"}
Levels == Len(clw)

(* every CLW value of the column is a number *)
RealValued == \A i \in 1..Levels : ~IsNaN(clw[i])

(* 0-based level indices whose CLW is strictly greater than the threshold *)
AboveSet == {i \in 0..(Levels - 1) : Gt(clw[i + 1], clw_thresh)}
SetMin(S) == CHOOSE x \in S : \A y \in S : x <= y
SetMax(S) == CHOOSE x \in S : \A y \in S : x >= y

(* last index of the contiguous run of above-threshold levels starting at a *)
RunEnd(a) == SetMax({b \in a..(Levels - 1) : \A i \in a..b : i \in AboveSet})

(* C1: for every profile, threshold and strictly monotonic lev labelling,
   0 <= idx_acb < L and 0 <= idx_bct < L. *)
C1_IndicesInRange ==
    Detected => /\ 0 <= idx_acb /\ idx_acb < Levels
                /\ 0 <= idx_bct /\ idx_bct < Levels

C1_Witness ==
    /\ Detected /\ clt_mask /\ Levels = MaxLev
    /\ idx_acb > 0 /\ idx_bct > idx_acb

(* C2: clt_mask is true if and only if at least one level has CLW strictly
   greater than the threshold, also when some level equals the threshold. *)
C2_CltMaskIffSomeLevelAbove ==
    (Detected /\ RealValued) => (clt_mask <=> AboveSet # {})

(* C3: where clt_mask is true, idx_acb is the smallest level index whose CLW
   is strictly greater than the threshold. *)
C3_IdxAcbIsFirstAbove ==
    (Detected /\ RealValued /\ clt_mask)
        => (AboveSet # {} /\ idx_acb = SetMin(AboveSet))

(* C4: a column whose only above-threshold level is the last index L-1 gets
   clt_mask = True, idx_acb = L-1 and idx_bct = L-1. *)
C4_CloudOnlyAtLastLevel ==
    (Detected /\ RealValued /\ AboveSet = {Levels - 1})
        => (clt_mask /\ idx_acb = Levels - 1 /\ idx_bct = Levels - 1)

(* a column whose above-threshold levels are exactly a..b, b < L-1 *)
SingleRunBeforeLast ==
    /\ AboveSet # {}
    /\ AboveSet = SetMin(AboveSet)..SetMax(AboveSet)
    /\ SetMax(AboveSet) < Levels - 1

(* C5 as stated: above-threshold levels exactly a..b with b < L-1 give
   clt_mask = True, idx_acb = a, idx_bct = b, for increasing and for
   decreasing lev labels alike. *)
C5_RunBounds_AnyLev ==
    (Detected /\ RealValued /\ SingleRunBeforeLast)
        => /\ clt_mask
           /\ idx_acb = SetMin(AboveSet)
           /\ idx_bct = SetMax(AboveSet)

(* C5 amended: above-threshold levels exactly a..b with b < L-1 give
   clt_mask = True and idx_acb = a under every lev labelling, and
   idx_bct = b when the lev labels strictly decrease with index. *)
C5_RunBounds_DecreasingLev ==
    (Detected /\ SingleRunBeforeLast)
        => /\ clt_mask
           /\ idx_acb = SetMin(AboveSet)
           /\ Decreasing(lev) => idx_bct = SetMax(AboveSet)

C5_Witness ==
    /\ Detected /\ SingleRunBeforeLast /\ Decreasing(lev)
    /\ 0 < idx_acb /\ idx_acb < idx_bct /\ idx_bct = SetMax(AboveSet)

(* C6: where clt_mask is false, idx_acb = 0 and idx_bct = 0; the cloud-base
   label is nan, every comparison with it is false, the scan gives 0. *)
C6_NoCloudIndicesZero ==
    (Detected /\ ~clt_mask)
        => /\ idx_acb = 0 /\ idx_bct = 0
           /\ IsNaN(lev_acb) /\ idx_act = 0
           /\ \A i \in 1..Levels : bct_mask[i] = 0

C6_Witness ==
    Detected /\ ~clt_mask /\ Levels = MaxLev /\ clw_thresh > 0

(* C7: var_below_cloud_top gives the missing-value sentinel where clt_mask
   is false, and var at level clip(idx_bct, 0, min(L, 31) - 1) where it is
   true; for 0 <= idx_bct < min(L, 31) that is var[idx_bct]. *)
C7_SampleClipped ==
    Sampled =>
        LET top == (IF Len(var) < 31 THEN Len(var) ELSE 31) - 1
            k == IF idx_bct < 0 THEN 0 ELSE IF idx_bct > top THEN top ELSE idx_bct
        IN  /\ ~clt_mask => IsNaN(var_bct)
            /\ clt_mask => var_bct = var[k + 1]
            /\ (clt_mask /\ 0 <= idx_bct /\ idx_bct <= top)
                  => var_bct = var[idx_bct + 1]

C7_Witness ==
    /\ pc = "returned" /\ clt_mask
    /\ Len(var) > ChooseLevels /\ idx_bct = ChooseLevels
    /\ var_bct = var[ChooseLevels]

(* C8: if clt_mask is false at threshold t1 then it is false at every
   threshold t2 >= t1 on the same profile. *)
C8_ThresholdMonotonic ==
    (Detected /\ ~clt_mask)
        => \A t2 \in Thresholds : t2 >= clw_thresh => ~CltMask(clw, t2)

C8_Witness ==
    /\ Detected /\ ~clt_mask /\ Levels = MaxLev
    /\ \E t2 \in Thresholds : t2 > clw_thresh

(* C9: lev labels strictly decreasing, clt_mask true, some level above the
   threshold; a = idx_acb, b = end of the contiguous above-threshold run from
   a.  If b < L-1 then idx_bct = b, idx_acb <= idx_bct and every level of
   idx_acb..idx_bct is above the threshold; if b = L-1 then idx_bct = 0. *)
C9_DecreasingLevRun ==
    (Detected /\ Decreasing(lev) /\ clt_mask /\ AboveSet # {})
        => LET b == RunEnd(idx_acb)
           IN  /\ idx_acb \in AboveSet
               /\ IF b < Levels - 1
                  THEN /\ idx_bct = b
                       /\ idx_acb <= idx_bct
                       /\ \A i \in idx_acb..idx_bct : i \in AboveSet
                  ELSE idx_bct = 0

C9_Witness ==
    /\ Detected /\ Decreasing(lev) /\ clt_mask
    /\ idx_acb \in AboveSet /\ idx_bct > idx_acb
    /\ \E i \in AboveSet : i > idx_bct + 1

(* the auxiliary mask is 0 below idx_acb and 1 from idx_acb on *)
BctMaskStepsAtIdxAcb ==
    \A i \in 0..(Levels - 1) :
        bct_mask[i + 1] = (IF i < idx_acb THEN 0 ELSE 1)

(* C10 as stated: lev labels strictly increasing; in every column, cloudy or
   not, bct_mask is false below idx_acb and true from idx_acb on, idx_act = 0
   and idx_bct = 0. *)
C10_IncreasingLev_AnyColumn ==
    (Detected /\ Increasing(lev))
        => (BctMaskStepsAtIdxAcb /\ idx_act = 0 /\ idx_bct = 0)

(* C10 amended: lev labels strictly increasing; where clt_mask is true
   bct_mask is false below idx_acb and true from idx_acb on, where clt_mask
   is false bct_mask is false at every level; in both cases idx_act = 0 and
   idx_bct = 0. *)
C10_IncreasingLev_ByCltMask ==
    (Detected /\ Increasing(lev))
        => /\ clt_mask => BctMaskStepsAtIdxAcb
           /\ ~clt_mask => \A i \in 1..Levels : bct_mask[i] = 0
           /\ idx_act = 0
           /\ idx_bct = 0

C10_Witness ==
    /\ Detected /\ Increasing(lev) /\ clt_mask /\ Levels = MaxLev
    /\ idx_acb > 0 /\ idx_acb + 1 \in AboveSet /\ idx_bct = 0
====
